---- MODULE Spec2Model ----
(***************************************************************************)
(* Model of src/app.py: a Streamlit chat page that relays user messages to *)
(* the Gemini API.  One script run is triggered by one widget interaction; *)
(* the run is synchronous, so the session is modelled as one process whose *)
(* position is pc.  get_response (the request orchestrator) is modelled    *)
(* step by step: context construction, each remote call, each sleep.       *)
(***************************************************************************)
EXTENDS Integers, Sequences, FiniteSets, TLC

VARIABLES
    session_id,        \* st.session_state.session_id
    chat_history,      \* st.session_state.chat_history: sequence of <<role, text>>
    log_records,       \* st.session_state.log_records: sequence of log rows
    logging_enabled,   \* st.session_state.logging_enabled
    selected_model,    \* value of the model selectbox
    csv_data,          \* CSV rendered by the sidebar of the last script run
    pc,                \* position of the script run
    prompt,            \* the submitted chat input (user_prompt in get_response)
    context_history,   \* get_response local: the contents sent to the API
    config,            \* get_response local: the call configuration
    attempt,           \* get_response local: loop index of the for loop
    retry_delay,       \* get_response local: next sleep duration
    response_text,     \* value returned by get_response
    trace              \* remote calls and sleeps of the current invocation, in order

vars == <<session_id, chat_history, log_records, logging_enabled, selected_model,
          csv_data, pc, prompt, context_history, config, attempt, retry_delay,
          response_text, trace>>

session_vars == <<session_id, chat_history, log_records, logging_enabled, selected_model>>

locals == <<context_history, config, attempt, retry_delay>>

----------------------------------------------------------------------------
(* Bounds of the exploration *)

\* completed submissions explored from the initial state (Spec)
MaxPairs == 2

\* completed submissions explored under fairness (SpecLive)
MaxLivePairs == 1

\* completed submissions already in the history when SpecDeep starts
MaxDeepPairs == 3

\* inputs enumerated
SessionIds == {"uuid-a", "uuid-b"}

\* a message with an embedded comma, line break and double quotes
MESSY_PROMPT == "a,b\n\"c\""

Prompts == {"p1", MESSY_PROMPT}

Replies == {"r1"}

Timestamps == {"t1"}

None == "None"

----------------------------------------------------------------------------
(* Program constants *)

AVAILABLE_MODELS == <<"gemini-2.5-flash", "gemini-2.0-flash", "gemini-2.5-pro", "gemini-2.0-pro">>

\* the models the exploration selects among
ModelChoices == {AVAILABLE_MODELS[1], AVAILABLE_MODELS[2]}

SYSTEM_PROMPT == "SYSTEM_PROMPT"

history_limit == 6

\* faulty variant: one attempt too many
max_retries_four == 3 + 1

max_retries == 3

initial_retry_delay == 2

API_ERROR_MESSAGE == "API call failed, try again later"

UNEXPECTED_ERROR_MESSAGE == "Sorry, an error occurred while processing"

RATE_LIMIT_MESSAGE == "Sorry, API quota exceeded, service temporarily unavailable"

CSV_COLUMNS == <<"session_id", "timestamp", "model", "user_message", "bot_response">>

----------------------------------------------------------------------------
(* Helpers *)

Max(a, b) == IF a >= b THEN a ELSE b

Min(a, b) == IF a <= b THEN a ELSE b

\* Python s[start:] for a negative start
\* faulty variant: s[:6], the oldest entries
slice_from_head(s, start) == SubSeq(s, 1, Min(Len(s), 0 - start))

slice_from(s, start) == SubSeq(s, Max(Len(s) + start, 0) + 1, Len(s))

\* {"role": role, "parts": [{"text": text}]}
content_entry(role, text) == [role |-> role, parts |-> <<[text |-> text]>>]

\* lines 171-184: the window of the history in wire shape, then the new prompt
\* faulty variant: the system prompt is sent as the first entry of the contents
build_context_with_system(history, user_prompt) ==
    LET limited_history == slice_from(history, 0 - history_limit)
    IN  <<content_entry("system", SYSTEM_PROMPT)>>
        \o [i \in 1..Len(limited_history) |->
                content_entry(limited_history[i][1], limited_history[i][2])]
        \o <<content_entry("user", user_prompt)>>

build_context(history, user_prompt) ==
    LET limited_history == slice_from(history, 0 - history_limit)
    IN  [i \in 1..Len(limited_history) |->
            content_entry(limited_history[i][1], limited_history[i][2])]
        \o <<content_entry("user", user_prompt)>>

\* the remote call's outcomes: a response text, an APIError, any other exception.
\* str(e) of an APIError is "<code> <status>. <details>": here its words.
ApiErrors ==
    { [kind |-> "APIError", code |-> 429, str |-> <<"429", "RESOURCE_EXHAUSTED">>],
      [kind |-> "APIError", code |-> 500, str |-> <<"500", "INTERNAL">>],
      [kind |-> "APIError", code |-> 400, str |-> <<"400", "INVALID_ARGUMENT", "429">>] }

OtherExceptions == { [kind |-> "Exception", code |-> 0, str |-> <<"timeout">>] }

Outcomes ==
    { [kind |-> "ok", text |-> r] : r \in Replies } \cup ApiErrors \cup OtherExceptions

\* "429" in str(e)
has_429(e) == \E i \in 1..Len(e.str) : e.str[i] = "429"

\* except APIError / except Exception: which clause catches the outcome
\* faulty variant: the except Exception clause is missing
handler_of_api_only(o) == IF o.kind = "APIError" THEN "APIError" ELSE "none"

\* faulty variant: the except Exception clause comes first and catches all
handler_of_exception_first(o) ==
    IF o.kind \in {"APIError", "Exception"} THEN "Exception" ELSE "none"

handler_of(o) ==
    IF o.kind = "APIError" THEN "APIError"
    ELSE IF o.kind \in {"APIError", "Exception"} THEN "Exception"
    ELSE "none"

\* The characters of a text.  A text without a comma, a line break or a double
\* quote counts as one character; MESSY_PROMPT is spelled out.
text_chars(t) ==
    IF t = MESSY_PROMPT THEN <<"a", ",", "b", "\n", "\"", "c", "\"">>
    ELSE <<t>>

\* csv.writer, QUOTE_MINIMAL: the characters that make a field quoted
csv_special == {",", "\n", "\""}

RECURSIVE csv_double_quotes(_)
csv_double_quotes(cs) ==
    IF cs = <<>> THEN <<>>
    ELSE (IF Head(cs) = "\"" THEN <<"\"", "\"">> ELSE <<Head(cs)>>)
         \o csv_double_quotes(Tail(cs))

\* one field as csv.writer writes it
csv_field(cs) ==
    IF \E i \in 1..Len(cs) : cs[i] \in csv_special
    THEN <<"\"">> \o csv_double_quotes(cs) \o <<"\"">>
    ELSE cs

RECURSIVE csv_join(_)
csv_join(fields) ==
    IF Len(fields) = 1 THEN csv_field(fields[1])
    ELSE csv_field(fields[1]) \o <<",">> \o csv_join(Tail(fields))

\* one line: the fields, comma separated, and the line terminator
csv_line(fields) == csv_join(fields) \o <<"\n">>

RECURSIVE csv_lines(_)
csv_lines(records) ==
    IF records = <<>> THEN <<>>
    ELSE csv_line(<<text_chars(records[1].session_id), text_chars(records[1].timestamp),
                    text_chars(records[1].model), text_chars(records[1].user_message),
                    text_chars(records[1].bot_response)>>)
         \o csv_lines(Tail(records))

\* pandas DataFrame(log_records).to_csv(index=False): the file's characters, a
\* header line and one line per record; an empty list of records gives a
\* frame without columns, written as an empty line
to_csv(records) ==
    IF records = <<>> THEN <<"\n">>
    ELSE csv_line([i \in 1..Len(CSV_COLUMNS) |-> <<CSV_COLUMNS[i]>>]) \o csv_lines(records)

\* lines 67-76: the log after log_conversation, timestamp being the clock's reading
\* faulty variant: the record is inserted at the front
log_conversation_prepend(user_text, bot_text, model_name, timestamp) ==
    <<[session_id |-> session_id, timestamp |-> timestamp, model |-> model_name,
       user_message |-> user_text, bot_response |-> bot_text]>> \o log_records

\* faulty variant: the two texts are swapped
log_conversation_swapped(user_text, bot_text, model_name, timestamp) ==
    Append(log_records,
           [session_id |-> session_id, timestamp |-> timestamp, model |-> model_name,
            user_message |-> bot_text, bot_response |-> user_text])

log_conversation(user_text, bot_text, model_name, timestamp) ==
    Append(log_records,
           [session_id |-> session_id, timestamp |-> timestamp, model |-> model_name,
            user_message |-> user_text, bot_response |-> bot_text])

\* lines 232 and 243: the turns appended to the history
user_turn(text) == <<"user", text>>

\* faulty variant: the role name of another API
model_turn_assistant(text) == <<"assistant", text>>

model_turn(text) == <<"model", text>>

----------------------------------------------------------------------------
(* Initial state: first script run of a session *)

Init ==
    /\ session_id \in SessionIds
    /\ chat_history = <<>>
    /\ log_records = <<>>
    /\ logging_enabled = TRUE
    /\ selected_model = AVAILABLE_MODELS[1]
    /\ csv_data = to_csv(<<>>)
    /\ pc = "idle"
    /\ prompt = None
    /\ context_history = <<>>
    /\ config = None
    /\ attempt = 0
    /\ retry_delay = 0
    /\ response_text = None
    /\ trace = <<>>

----------------------------------------------------------------------------
(* Sidebar interactions: each is one script run *)

\* lines 109-114: the user picks another model
SelectModel ==
    /\ pc = "idle"
    /\ \E m \in ModelChoices :
          /\ m # selected_model
          /\ selected_model' = m
    /\ csv_data' = to_csv(log_records)
    /\ UNCHANGED <<session_id, chat_history, log_records, logging_enabled, pc, prompt,
                   locals, response_text, trace>>

\* lines 121-124: reset button, then the rerun it asks for
\* faulty variant: the history is not cleared
Reset_keeps_history ==
    /\ pc = "idle"
    /\ log_records' = <<>>
    /\ csv_data' = to_csv(log_records')
    /\ UNCHANGED <<session_id, chat_history, logging_enabled, selected_model, pc, prompt,
                   locals, response_text, trace>>

\* faulty variant: the log is not cleared
Reset_keeps_log ==
    /\ pc = "idle"
    /\ chat_history' = <<>>
    /\ csv_data' = to_csv(log_records)
    /\ UNCHANGED <<session_id, log_records, logging_enabled, selected_model, pc, prompt,
                   locals, response_text, trace>>

Reset ==
    /\ pc = "idle"
    /\ chat_history' = <<>>
    /\ log_records' = <<>>
    /\ csv_data' = to_csv(log_records')
    /\ UNCHANGED <<session_id, logging_enabled, selected_model, pc, prompt,
                   locals, response_text, trace>>

\* lines 128-133: the logging checkbox
ToggleLogging ==
    /\ pc = "idle"
    /\ logging_enabled' = ~logging_enabled
    /\ csv_data' = to_csv(log_records)
    /\ UNCHANGED <<session_id, chat_history, log_records, selected_model, pc, prompt,
                   locals, response_text, trace>>

\* lines 135-147: the download button is enabled when the rendered log had
\* records; a click hands out csv_data and reruns the script
Download ==
    /\ pc = "idle"
    /\ csv_data # to_csv(<<>>)
    /\ csv_data' = to_csv(log_records)
    /\ UNCHANGED <<session_vars, pc, prompt, locals, response_text, trace>>

----------------------------------------------------------------------------
(* Chat input: lines 229-247 *)

\* lines 229-239: the run renders the sidebar, records the user message and
\* calls get_response(prompt)
SubmitUpTo(pairs) ==
    /\ pc = "idle"
    /\ Len(chat_history) < 2 * pairs
    /\ \E p \in Prompts : prompt' = p
    /\ csv_data' = to_csv(log_records)
    /\ chat_history' = Append(chat_history, user_turn(prompt'))
    /\ pc' = "get_response"
    /\ trace' = <<>>
    /\ UNCHANGED <<session_id, log_records, logging_enabled, selected_model,
                   locals, response_text>>

Submit == SubmitUpTo(MaxPairs)

\* lines 166-193: context window, config, retry variables
\* faulty variant: the prompt is appended to the session list itself
BuildContext_in_place ==
    /\ pc = "get_response"
    /\ chat_history' = Append(chat_history, user_turn(prompt))
    /\ context_history' = build_context(chat_history, prompt)
    /\ config' = [system_instruction |-> SYSTEM_PROMPT]
    /\ attempt' = 0
    /\ retry_delay' = initial_retry_delay
    /\ pc' = "attempt"
    /\ UNCHANGED <<session_id, log_records, logging_enabled, selected_model,
                   csv_data, prompt, response_text, trace>>

BuildContext ==
    /\ pc = "get_response"
    /\ context_history' = build_context(chat_history, prompt)
    /\ config' = [system_instruction |-> SYSTEM_PROMPT]
    /\ attempt' = 0
    /\ retry_delay' = initial_retry_delay
    /\ pc' = "attempt"
    /\ UNCHANGED <<session_vars, csv_data, prompt, response_text, trace>>

\* lines 195-215: one iteration of the loop up to the sleep
Attempt ==
    /\ pc = "attempt"
    /\ attempt < max_retries
    /\ \E o \in Outcomes :
          /\ trace' = Append(trace, [type |-> "call", model |-> selected_model,
                                     contents |-> context_history, config |-> config,
                                     outcome |-> o])
          /\ IF o.kind = "ok"
             THEN /\ response_text' = o.text
                  /\ pc' = "returned"
             ELSE IF handler_of(o) = "APIError"
             THEN IF has_429(o)
                  THEN /\ pc' = "sleep"
                       /\ UNCHANGED response_text
                  ELSE /\ response_text' = API_ERROR_MESSAGE
                       /\ pc' = "returned"
             ELSE IF handler_of(o) = "Exception"
             THEN /\ response_text' = UNEXPECTED_ERROR_MESSAGE
                  /\ pc' = "returned"
             ELSE /\ pc' = "raised"
                  /\ UNCHANGED response_text
    /\ UNCHANGED <<session_vars, csv_data, prompt, locals>>

\* lines 208-209 and the loop's increment
\* faulty variant: the delay is not doubled
Sleep_constant_delay ==
    /\ pc = "sleep"
    /\ trace' = Append(trace, [type |-> "sleep", secs |-> retry_delay])
    /\ attempt' = attempt + 1
    /\ pc' = "attempt"
    /\ UNCHANGED <<session_vars, csv_data, prompt, context_history, config,
                   retry_delay, response_text>>

Sleep ==
    /\ pc = "sleep"
    /\ trace' = Append(trace, [type |-> "sleep", secs |-> retry_delay])
    /\ retry_delay' = retry_delay * 2
    /\ attempt' = attempt + 1
    /\ pc' = "attempt"
    /\ UNCHANGED <<session_vars, csv_data, prompt, context_history, config, response_text>>

\* line 217: the loop ran out
\* faulty variant: the exit test of the loop is off by one
ReturnExhausted_off_by_one ==
    /\ pc = "attempt"
    /\ attempt > max_retries
    /\ response_text' = RATE_LIMIT_MESSAGE
    /\ pc' = "returned"
    /\ UNCHANGED <<session_vars, csv_data, prompt, locals, trace>>

ReturnExhausted ==
    /\ pc = "attempt"
    /\ attempt >= max_retries
    /\ response_text' = RATE_LIMIT_MESSAGE
    /\ pc' = "returned"
    /\ UNCHANGED <<session_vars, csv_data, prompt, locals, trace>>

\* lines 243-247: record the response, log the turn; the run ends
Finish ==
    /\ pc = "returned"
    /\ chat_history' = Append(chat_history, model_turn(response_text))
    /\ IF logging_enabled
       THEN \E ts \in Timestamps :
               log_records' = log_conversation(prompt, response_text, selected_model, ts)
       ELSE UNCHANGED log_records
    /\ pc' = "idle"
    /\ prompt' = None
    /\ response_text' = None
    /\ context_history' = <<>>
    /\ config' = None
    /\ attempt' = 0
    /\ retry_delay' = 0
    /\ trace' = <<>>
    /\ UNCHANGED <<session_id, logging_enabled, selected_model, csv_data>>

Next ==
    \/ SelectModel
    \/ Reset
    \/ ToggleLogging
    \/ Download
    \/ Submit
    \/ BuildContext
    \/ Attempt
    \/ Sleep
    \/ ReturnExhausted
    \/ Finish

Spec == Init /\ [][Next]_vars

\* The script run is one blocking thread: once get_response is called, its
\* next step is taken as soon as the remote call has returned or failed and
\* the sleep has ended.  No fairness for the user's interactions.
SubmitLive == SubmitUpTo(MaxLivePairs)

NextLive ==
    \/ SelectModel
    \/ Reset
    \/ ToggleLogging
    \/ Download
    \/ SubmitLive
    \/ BuildContext
    \/ Attempt
    \/ Sleep
    \/ ReturnExhausted
    \/ Finish

SpecLive ==
    /\ Init
    /\ [][NextLive]_vars
    /\ WF_vars(BuildContext)
    /\ WF_vars(Attempt)
    /\ WF_vars(Sleep)
    /\ WF_vars(ReturnExhausted)

----------------------------------------------------------------------------
(* A session that already holds a long history: the states reached when     *)
(* logging was switched off first and k submissions followed.               *)

Results == Replies \cup {API_ERROR_MESSAGE, UNEXPECTED_ERROR_MESSAGE, RATE_LIMIT_MESSAGE}

RECURSIVE PairHistories(_)
PairHistories(k) ==
    IF k = 0 THEN {<<>>}
    ELSE { h \o <<user_turn(p), model_turn(r)>> :
             h \in PairHistories(k - 1), p \in Prompts, r \in Results }

InitDeep ==
    /\ session_id \in SessionIds
    /\ chat_history \in UNION { PairHistories(k) : k \in 0..MaxDeepPairs }
    /\ log_records = <<>>
    /\ logging_enabled = FALSE
    /\ selected_model = AVAILABLE_MODELS[1]
    /\ csv_data = to_csv(<<>>)
    /\ pc = "idle"
    /\ prompt = None
    /\ context_history = <<>>
    /\ config = None
    /\ attempt = 0
    /\ retry_delay = 0
    /\ response_text = None
    /\ trace = <<>>

SubmitDeep == SubmitUpTo(MaxDeepPairs + 1)

NextDeep ==
    \/ SubmitDeep
    \/ BuildContext
    \/ Attempt
    \/ Sleep
    \/ ReturnExhausted
    \/ Finish

SpecDeep == InitDeep /\ [][NextDeep]_vars

----------------------------------------------------------------------------
(* Properties *)

IsCall(e) == e.type = "call"

IsSleep(e) == e.type = "sleep"

Calls == SelectSeq(trace, IsCall)

Sleeps == SelectSeq(trace, IsSleep)

\* the remote service answered "rate limited" (HTTP 429)
RateLimited(o) == o.kind = "APIError" /\ o.code = 429

\* the remote call failed, and not for rate limiting
OtherFailure(o) == o.kind # "ok" /\ ~RateLimited(o)

InRespond == pc \in {"get_response", "attempt", "sleep"}

IsPrefix(s, t) == Len(s) <= Len(t) /\ SubSeq(t, 1, Len(s)) = s

Last(s) == s[Len(s)]

\* C1: every payload sent is the last min(6, |h|) turns of the history h that
\* get_response read, in order and in wire shape, followed by the new message
\* as one user entry; so no turn older than the last 6 is in it.
C1_PayloadIsWindow ==
    \A i \in 1..Len(trace) :
        IsCall(trace[i]) =>
            LET h == chat_history
                n == IF Len(h) < 6 THEN Len(h) ELSE 6
                c == trace[i].contents
            IN  /\ Len(c) = n + 1
                /\ \A j \in 1..n :
                      /\ c[j].role = h[Len(h) - n + j][1]
                      /\ c[j].parts = <<[text |-> h[Len(h) - n + j][2]]>>
                /\ c[n + 1].role = "user"
                /\ c[n + 1].parts = <<[text |-> prompt]>>

\* a call was sent while the history held more than 6 turns, the dropped turn
\* differing from the oldest one kept
C1_Witness ==
    /\ Len(Calls) >= 1
    /\ Len(chat_history) > 6
    /\ chat_history[1] # chat_history[Len(chat_history) - 5]

\* C2: the submission step calls respond with the history as it stood before
\* the submission, and only the step after respond's return appends
\* (user, m) and then (model, r).
C2_AppendsAfterReturn ==
    [][ /\ (pc = "idle" /\ pc' = "get_response") => chat_history' = chat_history
        /\ (pc = "returned" /\ pc' = "idle") =>
              chat_history' = chat_history \o <<<<"user", prompt>>, <<"model", response_text>>>>
      ]_vars

\* C3: rate limited on attempts 1..j-1 and success on attempt j: respond
\* returns the successful text after exactly j calls and j-1 sleeps, of 2 then
\* 4, each between two consecutive calls.
C3_RetryThenSuccess ==
    ( /\ pc = "returned"
      /\ Len(Calls) >= 1
      /\ Last(Calls).outcome.kind = "ok"
      /\ \A i \in 1..(Len(Calls) - 1) : RateLimited(Calls[i].outcome) )
    => LET j == Len(Calls)
       IN  /\ j \in 1..3
           /\ response_text = Last(Calls).outcome.text
           /\ Len(trace) = 2 * j - 1
           /\ \A i \in 1..Len(trace) :
                 IF i % 2 = 1 THEN IsCall(trace[i])
                 ELSE IsSleep(trace[i]) /\ trace[i].secs = (IF i = 2 THEN 2 ELSE 4)

C3_Witness ==
    /\ pc = "returned"
    /\ Len(Calls) = 3
    /\ RateLimited(Calls[1].outcome)
    /\ RateLimited(Calls[2].outcome)
    /\ Calls[3].outcome.kind = "ok"
    /\ response_text = Calls[3].outcome.text

\* C4: rate limited on all 3 attempts: respond returns the rate-limit fallback
\* after exactly 3 calls; and no invocation ever makes more than 3 calls.
C4_ExhaustedAfterThree ==
    /\ Len(Calls) <= 3
    /\ ( /\ pc = "returned"
         /\ \A i \in 1..Len(Calls) : RateLimited(Calls[i].outcome) )
       => (response_text = RATE_LIMIT_MESSAGE /\ Len(Calls) = 3)

C4_Witness ==
    /\ pc = "returned"
    /\ Len(Calls) = 3
    /\ \A i \in 1..3 : RateLimited(Calls[i].outcome)
    /\ response_text = RATE_LIMIT_MESSAGE

\* C5: an attempt that fails with an error that is not rate limiting is the
\* last event of the invocation (no further call, no sleep), and respond has
\* returned a generic-error fallback.
C5_OtherErrorReturnsAtOnce ==
    \A i \in 1..Len(trace) :
        (IsCall(trace[i]) /\ OtherFailure(trace[i].outcome)) =>
            /\ i = Len(trace)
            /\ pc = "returned"
            /\ response_text \in {API_ERROR_MESSAGE, UNEXPECTED_ERROR_MESSAGE}

\* C6: no exception leaves respond, and what it returns is a string.
C6_NeverRaises ==
    /\ pc # "raised"
    /\ pc = "returned" => response_text \in Results

\* respond returned normally after an exception that is no APIError
C6_Witness ==
    /\ pc = "returned"
    /\ Len(Calls) >= 1
    /\ Last(Calls).outcome.kind = "Exception"

\* C7: the roles of the history alternate, starting with user.
C7_RolesAlternate ==
    \A i \in 1..Len(chat_history) :
        chat_history[i][1] = (IF i % 2 = 1 THEN "user" ELSE "model")

\* two completed submissions, the first answered by a fallback
C7_Witness ==
    /\ pc = "idle"
    /\ Len(chat_history) = 4
    /\ chat_history[2][2] = RATE_LIMIT_MESSAGE

\* C8: no step of respond changes the session state.
C8_RespondChangesNothing ==
    [][InRespond => UNCHANGED session_vars]_vars

\* respond returned a fallback in a session that holds earlier turns and records
C8_Witness ==
    /\ pc = "returned"
    /\ response_text = API_ERROR_MESSAGE
    /\ Len(chat_history) = 3
    /\ Len(log_records) = 1

\* C9: the step that completes a submission of m with result r appends one
\* record (session_id, timestamp, selected model, m, r) at the end of the log
\* when logging is enabled, and leaves the log unchanged when it is not.
C9_OneRecordPerSubmission ==
    [][ (pc = "returned" /\ pc' = "idle") =>
          LET m == chat_history'[Len(chat_history') - 1][2]
              r == chat_history'[Len(chat_history')][2]
          IN  /\ m = prompt
              /\ r = response_text
              /\ IF logging_enabled
                 THEN /\ Len(log_records') = Len(log_records) + 1
                      /\ SubSeq(log_records', 1, Len(log_records)) = log_records
                      /\ DOMAIN Last(log_records') =
                            {"session_id", "timestamp", "model", "user_message", "bot_response"}
                      /\ Last(log_records').session_id = session_id
                      /\ Last(log_records').timestamp \in Timestamps
                      /\ Last(log_records').model = selected_model
                      /\ Last(log_records').user_message = m
                      /\ Last(log_records').bot_response = r
                 ELSE log_records' = log_records
      ]_vars

\* a fallback result was logged, and a later submission was not
C9_Witness ==
    /\ pc = "idle"
    /\ Len(log_records) = 1
    /\ Len(chat_history) = 4
    /\ log_records[1].bot_response = RATE_LIMIT_MESSAGE
    /\ log_records[1].user_message = chat_history[1][2]

\* C10 as stated: the log before any step is a prefix of the log after it.
C10_LogAppendOnly ==
    [][IsPrefix(log_records, log_records')]_vars

\* C10 amended: every step other than a reset leaves the log before it a
\* prefix of the log after it; a reset empties the log.
C10_LogAppendOnlyBetweenResets ==
    [][ /\ Reset => log_records' = <<>>
        /\ ~Reset => IsPrefix(log_records, log_records')
      ]_vars

\* two records were appended one after the other
C10_Witness ==
    /\ pc = "idle"
    /\ Len(log_records) = 2
    /\ log_records[1] # log_records[2]

\* A standard CSV reader: the lines of the file, each a sequence of fields,
\* each field its characters
RECURSIVE csv_parse(_, _, _, _, _)
csv_parse(cs, rows, row, field, quoted) ==
    IF cs = <<>> THEN rows
    ELSE LET c == Head(cs)
             rest == Tail(cs)
         IN  IF quoted
             THEN IF c = "\""
                  THEN IF rest # <<>> /\ Head(rest) = "\""
                       THEN csv_parse(Tail(rest), rows, row, Append(field, "\""), TRUE)
                       ELSE csv_parse(rest, rows, row, field, FALSE)
                  ELSE csv_parse(rest, rows, row, Append(field, c), TRUE)
             ELSE IF c = "\"" THEN csv_parse(rest, rows, row, field, TRUE)
             ELSE IF c = "," THEN csv_parse(rest, rows, Append(row, field), <<>>, FALSE)
             ELSE IF c = "\n"
                  THEN csv_parse(rest, Append(rows, Append(row, field)), <<>>, <<>>, FALSE)
             ELSE csv_parse(rest, rows, row, Append(field, c), FALSE)

csv_decode(cs) == csv_parse(cs, <<>>, <<>>, <<>>, FALSE)

\* the header and one row per record of the log, field by field
RowsOf(records) ==
    <<[i \in 1..5 |-> <<CSV_COLUMNS[i]>>]>> \o
    [i \in 1..Len(records) |->
        <<text_chars(records[i].session_id), text_chars(records[i].timestamp),
          text_chars(records[i].model), text_chars(records[i].user_message),
          text_chars(records[i].bot_response)>>]

\* encoding then decoding the log gives the log back (the encoding alone)
CsvRoundTrip ==
    log_records # <<>> => csv_decode(to_csv(log_records)) = RowsOf(log_records)

\* C11: the CSV handed out by a download has the five columns and one row per
\* LogRecord in append order, and decoding it gives the records of the log
\* back, whatever the texts contain.
C11_ExportIsTheLog ==
    [][Download => csv_decode(csv_data) = RowsOf(log_records)]_vars

\* the number of calls among the first i events of the invocation
CallsBefore(i) == Len(SelectSeq(SubSeq(trace, 1, i), IsCall))

\* the attempt failed and respond took it for rate limiting
TakenAsRateLimited(o) == o.kind = "APIError" /\ has_429(o)

\* C12: a wait comes only right after a rate-limited attempt n with n < 3,
\* lasts 2^n and is followed by attempt n+1; so once respond has returned no
\* wait is its last event, and 3 rate-limited attempts wait 2 then 4.
\* (Rate-limited is read here as respond classifies it, the reading most
\* favourable to the code: the classification itself is the matter of C5.)
C12_BackoffOnlyBeforeRetry ==
    /\ \A i \in 1..Len(trace) :
          IsSleep(trace[i]) =>
              /\ i > 1
              /\ IsCall(trace[i - 1])
              /\ TakenAsRateLimited(trace[i - 1].outcome)
              /\ CallsBefore(i) < 3
              /\ trace[i].secs = 2 ^ CallsBefore(i)
              /\ pc = "returned" => i < Len(trace)
    /\ ( /\ pc = "returned"
         /\ Len(Calls) = 3
         /\ \A i \in 1..3 : RateLimited(Calls[i].outcome) )
       => [i \in 1..Len(Sleeps) |-> Sleeps[i].secs] = <<2, 4>>

\* C13: every invocation of respond ends: once called it reaches a return
\* (the response, the rate-limit fallback or a generic fallback) after 1 to 3
\* attempts, whatever the outcomes of the calls.
C13_RespondTerminates ==
    InRespond ~> (pc = "returned" /\ response_text \in Results /\ Len(Calls) \in 1..3)

\* respond returned after three attempts and three waits
C13_Witness ==
    /\ pc = "returned"
    /\ Len(Calls) = 3
    /\ Len(Sleeps) = 3

C15_HistoryAppendOnly ==
    [][ /\ Reset => chat_history' = <<>>
        /\ ~Reset => IsPrefix(chat_history, chat_history')
      ]_vars

\* two exchanges with different messages were appended one after the other
C15_Witness ==
    /\ pc = "idle"
    /\ Len(chat_history) = 4
    /\ chat_history[1] # chat_history[3]

\* C16: every remote call has the fixed system instruction in its
\* configuration and none of its contents entries is the system instruction;
\* all calls of one invocation send the same model, configuration and contents.
C16_SamePayloadWithSystemInstruction ==
    /\ \A i \in 1..Len(Calls) :
          /\ Calls[i].config = [system_instruction |-> SYSTEM_PROMPT]
          /\ \A j \in 1..Len(Calls[i].contents) :
                /\ Calls[i].contents[j].role \in {"user", "model"}
                /\ Calls[i].contents[j].parts # <<[text |-> SYSTEM_PROMPT]>>
    /\ \A i, j \in 1..Len(Calls) :
          /\ Calls[i].model = Calls[j].model
          /\ Calls[i].config = Calls[j].config
          /\ Calls[i].contents = Calls[j].contents

\* a third call was sent, with turns of the history in its contents
C16_Witness ==
    /\ Len(Calls) = 3
    /\ Len(Calls[3].contents) >= 3

\* the (user, model) texts of the completed exchanges of a history
ExchangesOf(h) == [k \in 1..(Len(h) \div 2) |-> <<h[2 * k - 1][2], h[2 * k][2]>>]

\* the (user_message, bot_response) texts of the records of a log
TextsOf(records) ==
    [i \in 1..Len(records) |-> <<records[i].user_message, records[i].bot_response>>]

\* s is t with some entries left out
RECURSIVE IsSubsequence(_, _)
IsSubsequence(s, t) ==
    IF s = <<>> THEN TRUE
    ELSE IF t = <<>> THEN FALSE
    ELSE IF Head(s) = Head(t) THEN IsSubsequence(Tail(s), Tail(t))
    ELSE IsSubsequence(s, Tail(t))

\* C17: with no submission in progress, the records of the log are, in order,
\* the texts of some of the exchanges of the history, at most one record per
\* exchange, each with the session's id; and a submission completed with
\* logging enabled keeps the two equal in count when they were equal before
\* it (as they are after a reset), so they are equal when logging was enabled
\* for every submission since the last reset.
C17_LogFollowsHistory ==
    /\ [](pc = "idle" =>
            /\ 2 * Len(log_records) <= Len(chat_history)
            /\ IsSubsequence(TextsOf(log_records), ExchangesOf(chat_history))
            /\ \A i \in 1..Len(log_records) : log_records[i].session_id = session_id)
    /\ [][ /\ Reset => (Len(log_records') = 0 /\ Len(chat_history') = 0)
           /\ ( /\ pc = "returned"
                /\ pc' = "idle"
                /\ logging_enabled
                /\ 2 * Len(log_records) = Len(chat_history) - 1 )
              => 2 * Len(log_records') = Len(chat_history')
         ]_vars

\* two exchanges, only the second of them logged
C17_Witness ==
    /\ pc = "idle"
    /\ Len(chat_history) = 4
    /\ Len(log_records) = 1
    /\ TextsOf(log_records)[1] = ExchangesOf(chat_history)[2]
    /\ TextsOf(log_records)[1] # ExchangesOf(chat_history)[1]

====
